---- MODULE Spec2Model ----
(***************************************************************************)
(* Prompt templates of src/prompt: golang_cosmos_question.py,              *)
(* golang_geth_question.py and solidity_question.py.  Each file defines    *)
(* question_format(question) and validation_format(report); both return    *)
(* one f-string with a single placeholder.                                 *)
(*                                                                         *)
(* Text encoding.  A text is a sequence of tokens, a token is a run of     *)
(* characters.  "\n" is the newline, a token of blanks is a run of spaces, *)
(* the sentinel, its misspellings and a heading standing alone on its line *)
(* are tokens of their own and are written byte for byte; every other      *)
(* token is the prose between them, in source order.  TLA+ strings are     *)
(* ASCII, so in prose tokens the typographic quotes, dashes, bullets and   *)
(* the backquote of the source are written as their ASCII look-alikes.     *)
(* String concatenation is \o on token sequences.                          *)
(***************************************************************************)
EXTENDS Integers, Sequences, FiniteSets, TLC

NL == "\n"

\* The line the templates ask for when there is no finding.
Sentinel == "#NoVulnerability found for this question."

\* The section headings of the report format, in the order of the templates.
Headings ==
  <<"## Title", "## Summary", "## Impact", "## Finding Description",
    "## Impact Explanation", "## Likelihood Explanation", "## Recommendation",
    "## Proof of Concept">>

\* Runs of blanks that occur as tokens (indentation of the templates, and a
\* single blank in free text).
Spaces == {" ", "  ", "   ", "     "}

\* src/prompt/golang_cosmos_question.py:2-5, the f-string of question_format up to the placeholder {question}
golang_cosmos_question_head ==
  <<"\n",
    "You are a Web3 Security Researcher. Your task is to analyze the given codebase with a laser focus on this single question:", "\n",
    "\n",
    "**Security Question (scope for this run):** ">>

\* src/prompt/golang_cosmos_question.py:5-79, the f-string of question_format after the placeholder {question}
golang_cosmos_question_tail ==
  <<"\n",
    "\n",
    "Your mission:", "\n",
    "- Use the security question as your starting point. Investigate all relevant code paths, protocol logic, and assumptions tied to that question, and look for one concrete, exploitable vulnerability. Do not debate the premise of the question; accept it and investigate thoroughly.", "\n",
    "- Explore a wide range of realistic input scenarios and edge cases. Test with large and small values (within valid ranges), atypical decimals or data encodings, sequences of actions or messages, and boundary conditions to see how the system's state changes. When mathematics, cryptography, or accounting are involved, check for rounding errors, overflow/underflow, miscalculations, or invariant violations. Always use inputs that could actually be provided by a real user, contract, or node on-chain or via the network.", "\n",
    "- Work through complete flows end-to-end: simulate how an unprivileged actor (e.g., a normal user or an external node) would interact with the system (calling functions, sending transactions or network messages), and trace how the internal state (storage variables, balances, consensus state, etc.) evolves. Consider interactions across modules, libraries, initialization routines, consensus or networking components, and configuration settings.", "\n",
    "- If you find a vulnerability, produce a report in the exact format specified below. If **no** valid vulnerability emerges, clearly state: **\"", "#NoVulnerability found for this question.", "\"**", "\n",
    "- Do not invent or repeat findings outside the scope of this question. Stay strictly within the defined scope; do not introduce unrelated issues.", "\n",
    "- The security question is your starting point. Your job is to investigate the code related to it and identify a concrete, exploitable vulnerability. Do not question the premise; focus logically and deeply on the relevant code.", "\n",
    "- Try to find **only ONE** valid vulnerability related to this question, ensuring it clearly ties to the question's topic.", "\n",
    "- Dive deep into the codebase, protocol logic, and underlying assumptions.", "\n",
    "\n",
    "Important rules:", "\n",
    "- The vulnerability must be actually triggerable under real-world conditions (on-chain or in-network). Pure logic or invariant violations count only if you can explain exactly how an attacker would leverage them to break the system (not just a theoretical issue with no practical impact).", "\n",
    "- Be 100% certain the issue is exploitable. If in doubt, respond with **\"", "#NoVulnerability found for this question.", "\"**", "\n",
    "- Focus on unprivileged attack surfaces first (actions by normal users or unauthenticated nodes). If exploiting the issue requires a privileged role (admin keys, validator majority, etc.), then only consider it if there is a subtle logic flaw that could be abused despite trusted actors (do not assume a malicious admin unless the flaw enables escalation).", "\n",
    "- Provide a working proof-of-concept using the project's test framework to demonstrate the exploit whenever possible. If the exploit or its effects cannot be reproduced in a test or simulation (using unit tests, integration tests, or the project's own testing tools), then the issue is not valid.", "\n",
    "- Findings that only improve efficiency, style, or that involve user/administrator error without a security impact are **out of scope**. Also excluded are:", "\n",
    "  ", "* Gas or performance optimizations, stylistic/code-quality improvements, or UX enhancements with no security impact.", "\n",
    "  ", "* Minor issues in events or view functions that do not affect the protocol's state or user funds.", "\n",
    "  ", "* Missing input validation (e.g., zero-address checks) that only prevents user mistakes; assume users and admins use the system as intended.", "\n",
    "  ", "* Admin misconfiguration or reckless admin actions (assume admins and privileged operators are trusted and competent).", "\n",
    "  ", "* Blacklisting/whitelisting or emergency pause mechanisms, unless an unprivileged attacker can exploit them.", "\n",
    "  ", "* Issues that require front-running or timing outside the intended threat model, if they cause no lasting damage (e.g., a race condition that can be easily reset or has negligible impact).", "\n",
    "  ", "* Purely theoretical attacks relying on external failures not caused by this code (e.g., 51% consensus attacks, major network partitions, cryptographic breaks external to this protocol, oracle failures beyond the protocol's control).", "\n",
    "  ", "* Loss of insignificant amounts (\"dust\") or scenarios where users only harm themselves (e.g. sending tokens to wrong address) without broader protocol impact.", "\n",
    "  ", "* Issues that depend on non-standard or intentionally malicious external components (e.g., specially crafted ERC-20 tokens with unusual behavior) unless explicitly in scope.", "\n",
    "  ", "* Duplicate or previously acknowledged issues (if the issue is known and documented as accepted or fixed, it's not valid to report again).", "\n",
    "- Search **all relevant places** in the codebase where the questioned logic might reside (e.g., message handlers, consensus algorithm steps, cryptographic functions, state transition logic, configuration and initialization code). Don't limit yourself to one file if the logic might be spread across multiple components.", "\n",
    "- **Do not go out of scope.** If an issue falls into any of the out-of-scope categories above, do not include it in your report.", "\n",
    "- Make sure to provide a valid test case if you find a vulnerability, using the project's existing testing setup, to prove the issue in action.", "\n",
    "- Ensure the vulnerability can actually be triggered; if you cannot demonstrate a scenario where it happens, it is not a valid finding.", "\n",
    "- If an issue is more of an informational or theoretical concern with no significant security impact, then it is **not** a reportable vulnerability.", "\n",
    "\n",
    "If you find a vulnerability (and only then), produce a report strictly in the following format. If you do **not** find any valid vulnerability, output **only** the line: '", "#NoVulnerability found for this question.", "' (with the hashtag, exactly as shown, and nothing else).", "\n",
    "\n",
    "Audit Report", "\n",
    "\n",
    "## Title", "\n",
    "[Clear and specific name of the vulnerability related to the question]", "\n",
    "\n",
    "## Summary", "\n",
    "A brief summary of the issue and where in the code it occurs.", "\n",
    "\n",
    "## Impact", "\n",
    "Low / Medium / High  (pick the severity based on impact)", "\n",
    "\n",
    "## Finding Description", "\n",
    "Explain the vulnerability step by step:", "\n",
    "- **Location:** Identify the file and function or module where the issue lies.", "\n",
    "- **Intended Behavior:** Describe what the code is supposed to do or what the assumptions are.", "\n",
    "- **Actual Behavior:** Describe the flawed logic or condition that breaks the intended behavior.", "\n",
    "- **Exploit Scenario:** Explain how an attacker or unprivileged user/node can trigger this vulnerability (the sequence of calls or events).", "\n",
    "- **Security Breach:** State which security property is violated (e.g., unauthorized access, fund mis-accounting, consensus failure, denial of service, etc.).", "\n",
    "Keep this description concise but factual and convincing.", "\n",
    "\n",
    "## Impact Explanation", "\n",
    "Explain the concrete consequences of the exploit: e.g., loss of funds, permanent funds lock, network halt or fork, incorrect accounting, privilege escalation, etc., and why this matters for the protocol.", "\n",
    "\n",
    "## Likelihood Explanation", "\n",
    "Discuss how likely this issue is to be encountered or exploited in practice: e.g., can it be triggered by any public user or any node easily? Does it require rare timing or conditions? Is it in a commonly used part of the system or an edge case?", "\n",
    "\n",
    "## Recommendation", "\n",
    "Suggest a fix or mitigation: e.g., a code change or additional check to correct the logic. Keep it concise and focus on the core fix (no need for lengthy refactoring suggestions).", "\n",
    "\n",
    "## Proof of Concept", "\n",
    "Present a minimal proof-of-concept demonstrating the issue using the project's own testing framework:", "\n",
    "- **Setup:** Describe any initial state or contracts/nodes setup required (e.g., initializing contracts, starting a local chain, specific balances or parameters).", "\n",
    "- **Trigger:** Describe the actions or transactions to perform (function calls, messages, or inputs that invoke the vulnerable code).", "\n",
    "- **Result:** Describe the observed outcome that indicates the vulnerability (e.g., an incorrect balance change, system panic, consensus divergence, etc.).", "\n",
    "- **Test Snippet:** Provide the actual code for a test case or script that reproduces the issue. Specify where this test code should be added (for example, in which test file and function within the repository). The test should use the existing test infrastructure and include assertions that fail due to the bug or show the exploit's effect.", "\n",
    "\n",
    "If **no** vulnerability is found for the given question, output exactly:", "\n",
    "#NoVulnerability found for this question.", "\n">>

\* Mutant of question_format: the question is quoted whatever it contains.
golang_cosmos_question_format_quoted(question) ==
  golang_cosmos_question_head \o <<"> ">> \o question \o golang_cosmos_question_tail

\* src/prompt/golang_cosmos_question.py:1-80, question_format: the f-string with {question} replaced by the argument.
golang_cosmos_question_format(question) ==
  golang_cosmos_question_head \o question \o golang_cosmos_question_tail

\* src/prompt/golang_cosmos_question.py:84-88, the f-string of validation_format up to the placeholder {report}
golang_cosmos_validation_head ==
  <<"\n",
    "You are a Senior Web3 Security Researcher (Judge). Your task is **validation** of a single security report/claim for a given question (not grading writing style, but the technical validity of the claim). The string below is the security report/claim you need to investigate and validate:", "\n",
    "\n",
    "SECURITY QUESTION / CLAIM (scope for this run):", "\n">>

\* src/prompt/golang_cosmos_question.py:88-152, the f-string of validation_format after the placeholder {report}
golang_cosmos_validation_tail ==
  <<"\n",
    "\n",
    "================================================================================================================================================", "\n",
    "Your mission (validation phase):", "\n",
    "\n",
    "1) **Treat the above report as a hypothesis** - do not focus on grammar or format of the report itself. Instead, investigate whether the underlying technical claim is a real, exploitable vulnerability in the codebase. You have the codebase and other resources at your disposal to confirm or refute the claim.", "\n",
    "\n",
    "2) **Search and cross-check the codebase and documentation**:", "\n",
    "   ", "- Identify all code paths related to the claim: entry points, helper functions, state variables, configuration flags, library calls, consensus flows, etc. Trace how the code is supposed to work versus what the report claims.", "\n",
    "   ", "- If available, search any provided knowledge base (DeepWiki or similar) or previous audit reports for mentions of this issue or related components. Note if this vulnerability (or similar) has been reported before or if it's a known/acknowledged issue.", "\n",
    "   ", "- Verify any references or hints in the report by looking at the code and tests. Confirm if the described behavior (bug) actually happens in the current code commit.", "\n",
    "\n",
    "3) **Apply platform acceptance rules** - The report is only valid if it describes a genuine vulnerability that meets the program's criteria. The following are automatic rejection conditions; if **any** apply, you must reject the finding (output '", "#NoVulnerability found for this question.", "'):", "\n",
    "   ", "- The issue described is solely due to an admin or privileged user misusing their powers (admins are assumed to be trusted and competent). Exception: if the vulnerability allows an attacker to gain those privileges, then it's valid.", "\n",
    "   ", "- The issue is purely about gas efficiency, code style, or a minor UX problem with no security impact.", "\n",
    "   ", "- The issue cannot be triggered through any realistic on-chain or network scenario (i.e., no sequence of on-chain calls or network messages can reproduce it).", "\n",
    "   ", "- The exploit scenario requires unrealistically assuming control over external systems or keys (e.g., the attacker needs to be a majority miner/validator without the vulnerability enabling that, requires leaked private keys, 51% attacks, Sybil attacks beyond normal assumptions, or other out-of-scope conditions).", "\n",
    "   ", "- The report's described impact contradicts the actual code behavior (e.g., the code already prevents the issue with a require or check that the report missed).", "\n",
    "   ", "- The issue relies on non-standard token behavior or external contracts that the protocol does not explicitly support or consider (unless the scope explicitly allows such tokens/contracts).", "\n",
    "   ", "- The exact issue is already a known issue or \"won't fix\" acknowledged by the team (check documentation or prior reports). If the project documentation or prior audits indicate this is an accepted risk or already fixed, then it's not a valid new finding.", "\n",
    "   ", "- The issue only affects off-chain tooling, test scripts, or documentation with no effect on the on-chain/network security of the system.", "\n",
    "   ", "- The alleged vulnerability has no concrete security impact (e.g., it only causes a transaction to revert for the caller, or only results in a benign error, without any loss of funds, breach of trust, or denial of service beyond the immediate call).", "\n",
    "\n",
    "4) **Platform-specific considerations** - Different audit platforms have slightly different requirements. Ensure the finding meets all:", "\n",
    "   ", "- **Code4rena/C4**: Requires a clear attack path from an external caller to a vulnerability in the contracts or system, with state changes outlined. A runnable proof-of-concept test is expected for medium/high severity. Admin-only issues or purely theoretical issues are not accepted.", "\n",
    "   ", "- **Immunefi**: Prefers vulnerabilities that are exploitable in a deployed environment (on mainnet or testnet) with significant impact (usually financial or security). Low-impact issues or ones that cannot be exploited on-chain are typically not eligible. A proof-of-concept or detailed step-by-step reproduction is required for higher severity findings.", "\n",
    "   ", "- **HackenProof DualDefense**: Only Critical severity issues are in scope for rewards. The issue must demonstrate both high impact and high likelihood. A fully working Proof of Concept must be provided at submission time (no later). Lower-severity issues (High/Medium/Low/Info) are generally not accepted in this contest. The report should be clear and include a suggested fix.", "\n",
    "   ", "- **Sherlock or others** (if applicable): Require a reproducible exploit and clear explanation. Overlap with above rules: any low-impact or admin-only issues are out. Ensure the finding would meet their severity definitions.", "\n",
    "\n",
    "5) **Language & test harness expectations** - tailor your validation to the codebase's technology:", "\n",
    "   ", "- **Solidity/EVM (smart contracts)**: If applicable, check for a Foundry/Hardhat test or script provided. The PoC should be in Solidity/JavaScript using those frameworks. Confirm that the test transactions in the PoC actually exploit the issue (e.g., by running 'forge test' or 'npm test' if possible).", "\n",
    "   ", "- **Move (Aptos/Sui)**: Expect a Move unit test or a Move prover counterexample demonstrating the bug. Ensure the Move module and script provided actually show the issue when run.", "\n",
    "   ", "- **Rust (Soroban/Substrate)**: Expect a Rust unit test (with #[test]) within the module or an integration test. Check that the test uses the project's framework (like Soroban environment or Substrate node testing) and that it fails or logs an error indicating the vulnerability.", "\n",
    "   ", "- **Go (Cosmos SDK or similar L1 client)**: Expect a Go test (for example, a '_test.go' file) that uses the project's testing framework. It might involve setting up a local chain simulation or using provided test utilities. Verify that the test reliably reproduces the issue (for Cosmos, this could involve simapp or an integration test; for an Ethereum client like geth or gcEVM, it could involve simulating block processing or network messages in a controlled environment).", "\n",
    "   ", "- **Other languages/frameworks**: The PoC should align with the project's stack. If the project has a custom test harness or requires a certain environment (e.g., multi-node simulation), the provided PoC should utilize that. You may need to run or mentally execute the provided steps to confirm the outcome.", "\n",
    "\n",
    "   ", "If the report does not include an appropriate PoC or test in the expected format (and it's not possible to craft one easily), this is a red flag for validity.", "\n",
    "\n",
    "6) **Minimal validation checklist** (all of these must hold true for the finding to be valid):", "\n",
    "   ", "1. **Confirm call/event flow** - Walk through the exact sequence of external inputs from an attacker through to the vulnerable code. Set up any necessary preconditions (e.g., contract state, blockchain state, or node configuration). Ensure that all required checks (e.g., 'require' statements, signature verifications, consensus conditions) can be satisfied by an attacker in this flow. The path from entry to exploit must be realistic and permitted by the code.", "\n",
    "   ", "2. **Track state changes** - Observe all relevant state variables or outputs before and after the exploit steps. This could include balances, totals, consensus state (like validator sets or fork choice), critical flags, counters, etc. Identify exactly where the state deviates from expected behavior: e.g., an invariant is violated, funds go missing or to the wrong account, a consensus property breaks, or memory/cpu usage spikes abnormally.", "\n",
    "   ", "3. **Use realistic inputs** - Use input values or conditions that could occur in the actual environment. For example, if testing numeric values, use amounts within allowed ranges (not just extreme impossibilities) and account for any required formatting (like correct data encoding). If the exploit involves multiple blocks or messages, ensure the scenario is something a real attacker could set up (no need for implausible timing or fake external conditions beyond the attacker's control).", "\n",
    "   ", "4. **Demonstrate the effect** - Show that the exploit leads to a tangible problem: theft of funds, permanent denial of service, consensus failure, unintended control, etc. It's not enough if the only outcome is a transaction revert or an error that doesn't have lasting impact. The report should prove an advantage gained by the attacker or a harm to the protocol's security.", "\n",
    "   ", "5. **Provide a runnable PoC** - There must be a minimal, reproducible test case or script provided (in the project's own testing framework) that executes the exploit and illustrates the issue. It should be something that one could run (or conceptually run, if we cannot execute code here) to see the vulnerability in action. If the provided PoC code does not actually trigger the described issue or cannot run, the finding is invalid.", "\n",
    "   ", "6. **No privileged assumptions** - The exploit should not require the attacker to have any special privileges or trust beyond what a normal participant has, unless the vulnerability is about privilege escalation. If the scenario assumes a malicious admin or an already compromised majority of nodes, it's not a valid vulnerability (that would be out-of-scope, as those actors are trusted). The exception is if the vulnerability allows a non-admin to perform an admin-only action.", "\n",
    "   ", "7. **Exclude out-of-scope factors** - Ensure the exploit does not rely on conditions explicitly listed as out-of-scope. For example, it should not depend on a 51% attack or other overwhelming external force, nor on deliberately misconfigured parameters by the deployers, nor on hypothetical future code changes. The exploit must hinge only on the code's current logic and reasonable use of the system by an attacker.", "\n",
    "\n",
    "7) **Check prior art and intent**:", "\n",
    "   ", "- Look up any references to this issue in the project's documentation, issue tracker, or audit materials (if provided, e.g., via DeepWiki or a Gitbook). See if the behavior is perhaps intentional or already known. If it's an intentional trade-off or the team has accepted it, then unless the exploit is severe and new, it may not be considered a valid report.", "\n",
    "   ", "- If the project explicitly documents this \"vulnerability\" as a feature or necessary compromise, it's likely not to be reported as a bug (unless the report can demonstrate that the impact is worse than acknowledged or can be abused unexpectedly).", "\n",
    "\n",
    "8) **Make a final judgment** - Weigh the evidence. If all the above checks are satisfied and the issue is reproducible and impactful, then it's a valid vulnerability. Otherwise, it should be rejected.", "\n",
    "\n",
    "9) **Output the result**:", "\n",
    "   ", "- If you conclude this is a **valid vulnerability** that meets all criteria, output the Audit Report in the exact format provided below (same structure as the original report request, including sections Title, Summary, Impact, etc., and incorporating any additional details from your validation).", "\n",
    "   ", "- If you conclude **no valid vulnerability** is present, output exactly the single line:", "\n",
    "     ", "'''", "\n",
    "     ", "#NoVulnerability found for this question.", "\n",
    "     ", "'''", "\n",
    "   ", "(Make sure to include the leading '#' and follow the exact casing and wording.)", "\n",
    "\n",
    "================================================================================================================================================", "\n",
    "\n",
    "Now, based on the above steps, perform the validation. If the issue is valid, provide the full structured report as specified. If it is invalid or not truly exploitable, respond with the single line rejecting it (as per the format in step 9).", "\n">>

\* Mutant of validation_format: the judge prompt is built from the auditor
\* template.
golang_cosmos_validation_format_as_question(report) ==
  golang_cosmos_question_head \o report \o golang_cosmos_question_tail

\* src/prompt/golang_cosmos_question.py:83-153, validation_format: the f-string with {report} replaced by the argument.
golang_cosmos_validation_format(report) ==
  golang_cosmos_validation_head \o report \o golang_cosmos_validation_tail

\* src/prompt/golang_geth_question.py:3-6, the f-string of question_format up to the placeholder {question}
golang_geth_question_head ==
  <<"\n",
    "You are a Web3 Security Researcher. Your task is to analyze the given codebase (an L1 blockchain protocol or client) with a laser focus on this single question:", "\n",
    "\n",
    "**Security Question (scope for this run):** ">>

\* src/prompt/golang_geth_question.py:6-87, the f-string of question_format after the placeholder {question}
golang_geth_question_tail ==
  <<"\n",
    "\n",
    "Your mission:", "\n",
    "- Use the security question as your starting point. Investigate all code paths, system components, and protocol logic related to that question and look for one concrete, exploitable vulnerability. Do not debate the premise of the question; accept it and investigate thoroughly.", "\n",
    "- Explore a wide range of realistic input scenarios and edge cases. Test large and small values (e.g. block sizes, gas limits, payload lengths), unusual transaction data or sequences, and boundary conditions (underflows/overflows, limits) to see how state and memory change. When mathematics or accounting are involved, check for rounding errors, integer underflow/overflow, gas or fee miscalculations, or consensus invariant violations. Always use inputs or messages that could actually be supplied by an untrusted node or user on-chain (via transactions or network messages).", "\n",
    "- Work through complete flows end-to-end: simulate how an unprivileged user's transaction or a malicious network peer's message would propagate and be processed by the system, how the different node roles (sequencer, executor, validator, etc.) handle it, and how state variables or consensus state evolve. Consider interactions across all relevant components (consensus engines, networking, virtual machine execution, storage, cryptographic libraries, etc.) and track how data moves through them. Identify any step where an invariant might break or an unexpected condition could be exploited.", "\n",
    "- If you find a vulnerability, produce a report in the exact format below. If **no** valid vulnerability emerges, clearly state: **\"", "#NoVulnerability found for this question.", "\"** (with the hashtag, exactly as shown, and nothing else).", "\n",
    "- Do not invent or repeat findings you've reported for this question in previous runs. Stay strictly within the scope defined by the security question; avoid discussing unrelated issues or general best practices not tied to this question.", "\n",
    "- Try to find **only ONE** concrete, valid vulnerability related to this question. The goal is quality over quantity. Focus your investigation deeply on this potential issue and ignore other tangential problems.", "\n",
    "- Go deep into the codebase, business logic, and protocol assumptions connected to this question. Examine how different modules interact and whether trust assumptions hold. Do not just surface-level scan; reason about the system's behavior under adverse conditions relevant to the question.", "\n",
    "\n",
    "Important rules:", "\n",
    "- The vulnerability must be actually triggerable in a real network or on-chain context. Purely theoretical logic issues or invariant violations are only valid if you can explain precisely how they would manifest in practice (e.g. causing a consensus failure, node crash, financial loss, etc.).", "\n",
    "- Be 100% certain the issue is exploitable. When in doubt or if you cannot concretely demonstrate an exploit scenario, report **\"", "#NoVulnerability found for this question.", "\"**", "\n",
    "- Focus on external attack surfaces (non-privileged actors) first. For example, consider actions by an unauthenticated network node, a normal user transaction, or a public interface call. If the relevant functionality is restricted to privileged roles (e.g. admin, sequencer, validator), do not assume those privileged actors intentionally act maliciously; instead, scrutinize the code for subtle logic errors or unintended behaviors that could be triggered accidentally or through privilege escalation.", "\n",
    "- Provide a working proof-of-concept using the project's test framework to demonstrate the exploit whenever possible. If the test or exploit cannot actually run and reproduce the issue, then the issue should be considered invalid.", "\n",
    "- The following types of issues are **out of scope** and should NOT be reported as vulnerabilities:", "\n",
    "  ", "* Gas optimizations, micro-optimizations, or stylistic/code clarity improvements.", "\n",
    "  ", "* Incorrect log/event outputs or RPC return values that do not affect protocol state or security.", "\n",
    "  ", "* Missing input validation or edge-case checks that only prevent user mistakes (assume users and node operators follow expected procedures).", "\n",
    "  ", "* Issues that require misconfiguration or intentional misuse by an admin or privileged operator (admins/validators are trusted; focus on vulnerabilities that an attacker without special privileges can exploit).", "\n",
    "  ", "* Blacklisting/whitelisting or freezing mechanisms that only a privileged user can invoke (unless those can be manipulated by an attacker without privileges).", "\n",
    "  ", "* Non-critical race conditions or timing issues that do not lead to irreversible damage (e.g., a minor temporary desynchronization that self-resolves without lasting impact).", "\n",
    "  ", "* Pure user-experience or UI/CLI issues (e.g. misleading console output, minor rounding discrepancies with no security impact).", "\n",
    "  ", "* Minor loss of funds or \"dust\" amount issues that only occur due to user error or expected protocol behavior (and do not pose a systemic risk).", "\n",
    "  ", "* Issues dependent on hypothetical future code changes or external services beyond the current codebase's control (e.g., assumptions about future modules, off-chain oracles misbehaving outside stated assumptions, 51% attacks or other consensus attacks requiring overwhelming external power, network-level attacks outside the node's control).", "\n",
    "  ", "* Attacks requiring control of privileged keys/addresses, leaked private keys, physical access to infrastructure, or other extraordinary conditions that are not realistic for an external attacker.", "\n",
    "  ", "* Attacks on third-party dependencies or out-of-scope components (unless a dependency bug directly compromises this in-scope code in a critical way).", "\n",
    "  ", "* Best-practice recommendations, feature requests, or any low-impact bugs that do not pose a security risk to the protocol.", "\n",
    "- Check all places in the codebase where the relevant logic might reside (including utility libraries, consensus modules, networking code, precompiled contracts, configuration settings, and any component involved in the process).", "\n",
    "- Prioritize vulnerabilities that can be exploited by typical usage or by an attacker with no special privileges. If a function or action is only accessible to a privileged role, any issue must be a subtle bug that could cause a security failure beyond just that actor's misbehavior.", "\n",
    "- Do not go out of scope of the question. Avoid discussing anything that isn't directly related to the specific security question.", "\n",
    "- Ensure the vulnerability can actually be triggered under realistic conditions. If an issue only occurs under extremely contrived scenarios or requires numerous unlikely prerequisites, treat it as not a valid finding.", "\n",
    "- If you find a vulnerability, you **MUST** produce a report in the exact format specified below.", "\n",
    "- If you do **not** find any valid vulnerability, you **MUST** output **only** the line: **\"", "#NoVulnerability found for this question.", "\"** (with no additional commentary or text).", "\n",
    "\n",
    "Audit Report", "\n",
    "\n",
    "## Title", "\n",
    "[Clear and specific name of the vulnerability related to the question]", "\n",
    "\n",
    "## Summary", "\n",
    "A short, direct summary of the issue and where it occurs in the codebase.", "\n",
    "\n",
    "## Impact", "\n",
    "Categorize the severity as Low, Medium, or High.", "\n",
    "\n",
    "## Finding Description", "\n",
    "Explain the vulnerability step-by-step:", "\n",
    "- **Location:** Identify the specific module, file, and line (or function) where the issue occurs.", "\n",
    "- **Intended Logic:** Describe what the code is supposed to do or what security invariant is expected.", "\n",
    "- **Actual Logic:** Describe what the code does instead in the vulnerable scenario, and how it deviates from the intention.", "\n",
    "- **Exploit Scenario:** Explain how an attacker or an unprivileged participant can trigger this vulnerability (the sequence of actions or conditions leading to it).", "\n",
    "- **Security Failure:** State which security property is broken (e.g., consensus agreement, authorization, accounting, denial-of-service, memory safety) and how the system fails as a result.", "\n",
    "\n",
    "## Impact Explanation", "\n",
    "Explain the concrete impact of this vulnerability:", "\n",
    "- What assets, data, or processes are affected (e.g., funds, transaction finality, network availability)?", "\n",
    "- How severe is the damage (e.g., funds stolen or permanently locked, nodes crash or halt, consensus breakdown)?", "\n",
    "- Why does this matter for the security or reliability of the system?", "\n",
    "\n",
    "## Likelihood Explanation", "\n",
    "How likely is this vulnerability to be triggered or exploited in practice?", "\n",
    "- Who can trigger it (any network participant or only someone under specific conditions)?", "\n",
    "- What conditions or timing are required (can it happen during normal operation or only under rare circumstances)?", "\n",
    "- How frequently could it occur or be exploited if not fixed?", "\n",
    "\n",
    "## Recommendation", "\n",
    "Provide a concise fix or mitigation strategy. Suggest specific changes (e.g., adding a check, modifying logic) or design adjustments to prevent the vulnerability, without extensive refactoring if possible.", "\n",
    "\n",
    "## Proof of Concept", "\n",
    "Provide a minimal, reproducible proof-of-concept (PoC) demonstrating the issue using the project's test framework:", "\n",
    "- Specify the **file name and test function** where this PoC code should be added (or a new test file name, if appropriate) within the repository's tests.", "\n",
    "- Setup: Describe any necessary initial state or configuration (e.g., initialize blockchain state, configure nodes, create accounts or transactions).", "\n",
    "- Trigger: Execute the actions that trigger the vulnerability (e.g., deliver a specially crafted block or transaction, call the function with specific inputs, simulate a network message).", "\n",
    "- Observation: Explain what the test observes (e.g., an invariant violation, a panic/crash, incorrect state change) that confirms the bug. The test should fail (or detect the issue) on the vulnerable code.", "\n",
    "- This PoC should be ready to run within the project's test suite to prove the issue.", "\n",
    "\n",
    "If **no** vulnerability is found for this question, output ONLY:", "\n",
    "#NoVulnerability found for this question.", "\n",
    "(Do not output anything else if there is no vulnerability.)", "\n">>

\* The text with every "{question}" token of it replaced by the argument.
RECURSIVE ExpandFrom(_, _, _)
ExpandFrom(text, arg, i) ==
  IF i > Len(text) THEN <<>>
  ELSE (IF text[i] = "{question}" THEN arg ELSE <<text[i]>>)
       \o ExpandFrom(text, arg, i + 1)

\* Mutant of question_format: the result is formatted a second time, so a
\* "{question}" inside the question is expanded again.
golang_geth_question_format_twice(question) ==
  golang_geth_question_head \o ExpandFrom(question, question, 1)
    \o golang_geth_question_tail

\* src/prompt/golang_geth_question.py:2-88, question_format: the f-string with {question} replaced by the argument.
golang_geth_question_format(question) ==
  golang_geth_question_head \o question \o golang_geth_question_tail

\* src/prompt/golang_geth_question.py:91-95, the f-string of validation_format up to the placeholder {report}
golang_geth_validation_head ==
  <<"\n",
    "You are a Senior Web3 Security Researcher **Judge**. Your task is *validation* of a single security question/claim. The string below is the security **report/claim** to investigate and validate:", "\n",
    "\n",
    "SECURITY QUESTION / CLAIM (scope for this run):", "\n">>

\* src/prompt/golang_geth_question.py:95-192, the f-string of validation_format after the placeholder {report}
golang_geth_validation_tail ==
  <<"\n",
    "\n",
    "================================================================================================================================================", "\n",
    "Your mission:", "\n",
    "\n",
    "1) **Treat the claim as the starting point** -- Do not discuss the report's style or who wrote it. Focus solely on the technical claim. Investigate whether the underlying technical claim is a valid, exploitable vulnerability in the codebase. Use the code, tests, and any documentation to confirm or refute the claim.", "\n",
    "\n",
    "2) **Search & Cross-Check**:", "\n",
    "   ", "- Inspect all relevant code paths, functions, and modules related to the claim. Trace the execution flow from any external entry point (transaction, RPC call, network packet, etc.) to the point of the alleged vulnerability. Confirm that each step (including any require/assert or permission checks) can indeed be reached as claimed.", "\n",
    "   ", "- Search through the project's documentation, prior audits, or a knowledge base (e.g., DeepWiki) for information on this part of the system. Look for any prior reports or noted issues similar to this claim. Summarize any relevant references or fixes that relate to the claim.", "\n",
    "   ", "- Check if this behavior is documented as intentional or already fixed in a later version. If it's a known accepted risk or a duplicate of a previously reported issue (without new exploitability), that should influence your validation.", "\n",
    "\n",
    "3) **Platform Acceptance Rules** (must all be considered). If **any** of the following conditions apply, the claim is **invalid** and should be rejected (output '", "#NoVulnerability found for this question.", "'):", "\n",
    "   ", "- The issue requires an admin/privileged misconfiguration or uses privileged keys (assume privileged roles are trusted) -- *unless* even a trusted role inadvertently triggering it would cause an unrecoverable security failure beyond their intended authority.", "\n",
    "   ", "- The issue is purely about gas optimization, minor efficiency, or code style with no security impact.", "\n",
    "   ", "- There is no feasible on-chain or network input that can trigger the issue (i.e., it cannot occur through any realistic use of the system).", "\n",
    "   ", "- **No realistic attacker scenario**: Exploitation hinges on conditions like stolen private keys, a 51% attack or majority collusion, Sybil attacks beyond normal assumptions, or off-chain manipulations outside the protocol's control (these are out of scope).", "\n",
    "   ", "- The code already prevents or handles the scenario (the claim misreads the code or overlooks existing checks, making the impact impossible).", "\n",
    "   ", "- The issue depends only on non-standard or adversarial token/contract behavior that the protocol doesn't support by design (unless explicitly stated as in-scope).", "\n",
    "   ", "- The exact issue is a known duplicate or \"won't fix\" that has been documented (without any new dimension added by this report).", "\n",
    "   ", "- It only affects tests, documentation, or non-production code, or it's a development feature not deployed in production.", "\n",
    "   ", "- The outcome is not a security risk (e.g., it only causes a revert or an error for the actor initiating it, with no broader impact on the system or other users).", "\n",
    "\n",
    "   ", "**Platform-specific context:**", "\n",
    "   ", "- **Code4rena:** Demands a clear transaction flow, state tracking, and a working PoC (e.g., Forge/Hardhat test) to prove the issue. No credit for scenarios that require malicious privileged actors. Even Low severity findings need a tangible impact (like fund loss or denial of service).", "\n",
    "   ", "- **Sherlock:** Focuses on high-impact, on-chain exploits. A PoC should be provided. Informational or very low-impact issues are generally not accepted.", "\n",
    "   ", "- **Immunefi:** Similar standards -- the vulnerability should be demonstrable and significant. Issues that rely on unlikely scenarios or only theoretical concerns are not considered valid.", "\n",
    "\n",
    "4) **Language & Test Expectations** (depending on tech stack):", "\n",
    "   ", "- **Solidity / EVM:** Expect a Foundry or Hardhat test in the report, showing the exploit with actual contract calls and state assertions.", "\n",
    "   ", "- **Move:** Expect a Move language test or script executing the offending call and checking results.", "\n",
    "   ", "- **Rust (Soroban/Substrate):** Expect a Rust unit test or integration test exposing the issue (using the project's test framework).", "\n",
    "   ", "- **Go (Ethereum client/Geth):** Expect a Go test (in a '*_test.go' file within the relevant package) that simulates the scenario (e.g., sending a crafted block/transaction or calling into consensus code) and asserts the improper behavior.", "\n",
    "   ", "- **Go (Cosmos SDK):** Expect a Go test using simapp or module test functions that sets up the chain state and triggers the vulnerability.", "\n",
    "   ", "- If a proper proof-of-concept isn't included or cannot be constructed, the report likely fails to meet the bar. A reproducible local test is generally required. ", "\n",
    "   ", "- *Note:* The provided PoC might contain errors if auto-generated; focus on whether the described scenario truly reveals a bug in the code.", "\n",
    "\n",
    "5) **Minimal Validation Checklist** (the claim must satisfy ALL to be a valid finding):", "\n",
    "   ", "1. **Confirm Flow** - Identify the entry point and path to the vulnerable code. Ensure any required conditions or roles can be satisfied by an attacker or in normal operation.", "\n",
    "   ", "2. **State Change Analysis** - Observe the key state variables or outputs before and after the exploit. Pinpoint where the system's expected behavior diverges (e.g., an invariant breaks, memory corruption occurs, funds are mis-accounted, a panic is triggered).", "\n",
    "   ", "3. **Realistic Inputs** - Verify that the inputs used in the exploit are plausible and within allowed ranges. The scenario should use legitimate transactions or messages that the system would accept (no out-of-bound values unless those bounds aren't checked).", "\n",
    "   ", "4. **Impact Verification** - Confirm that the exploit has a concrete adverse effect: e.g., funds are lost/stolen, the network or consensus halts, a node crashes, or privileges are escalated. If the outcome is merely a reverted transaction or an error with no lasting effect, it's not a reportable vulnerability.", "\n",
    "   ", "5. **Reproducible PoC** - There should be a PoC test or script that can run against the codebase to trigger the issue. This can be the provided one or your own minimal re-creation. If you cannot actually reproduce the issue (and it's not obvious from reasoning alone), the claim is unproven.", "\n",
    "   ", "6. **No Special Privileges Needed** - The exploit should not require the attacker to already have an admin role or control majority of the system (unless the issue is about escalation from a lower privilege to higher). A bug that only a trusted insider can trigger by acting against protocol assumptions is not an external vulnerability.", "\n",
    "   ", "7. **No Out-of-Scope Dependencies** - The exploit should not depend on events or conditions outside the intended scope (like an entirely different protocol failing, or an upstream library bug unless it directly impacts this system). It should be a self-contained issue in the context of the target system.", "\n",
    "\n",
    "6) **Outcome & Response**:", "\n",
    "   ", "- If you confirm the claim is a **valid vulnerability** (all checks passed), output the following **Audit Report** format, ensuring clarity and completeness:", "\n",
    "     ", "'''", "\n",
    "     ", "Audit Report", "\n",
    "\n",
    "     ", "## Title", "\n",
    "     ", "[Clear and specific name of the vulnerability related to the question]", "\n",
    "\n",
    "     ", "## Summary", "\n",
    "     ", "Short, direct summary of the issue and where it occurs.", "\n",
    "\n",
    "     ", "## Impact", "\n",
    "     ", "Low / Medium / High", "\n",
    "\n",
    "     ", "## Finding Description", "\n",
    "     ", "- location: <file and line number or module name where the issue occurs>", "\n",
    "     ", "- intended logic: <explanation of the intended correct behavior>", "\n",
    "     ", "- actual logic: <explanation of the flawed behavior happening instead>", "\n",
    "     ", "- exploitation path: <how an attacker triggers the issue, step by step from entry to impact>", "\n",
    "     ", "- security guarantee broken: <which security property or invariant is violated>", "\n",
    "\n",
    "     ", "## Impact Explanation", "\n",
    "     ", "Describe the impact in terms of consequences (fund loss, network halt, etc.).", "\n",
    "\n",
    "     ", "## Likelihood Explanation", "\n",
    "     ", "Discuss how likely this is to be encountered or exploited (who can do it, how often, under what conditions).", "\n",
    "\n",
    "     ", "## Recommendation", "\n",
    "     ", "Suggest a fix or mitigation (e.g., code change or additional check).", "\n",
    "\n",
    "     ", "## Proof of Concept", "\n",
    "     ", "Provide a test or script (with file name and function) that reproduces the issue:", "\n",
    "     ", "- setup (initial state or prep steps)", "\n",
    "     ", "- action (the call/transaction or sequence that triggers the bug)", "\n",
    "     ", "- result (the observed incorrect outcome or error indicating the bug)", "\n",
    "     ", "'''", "\n",
    "   ", "- If you determine **no valid vulnerability** exists (the claim fails any of the above criteria), you **must** respond with exactly:", "\n",
    "     ", "'''", "\n",
    "     ", "#NoVulnerability found for this question.", "\n",
    "     ", "'''", "\n",
    "\n",
    "7) **Prior Art & Intentional Behavior**:", "\n",
    "   ", "- Double-check if the project team has noted this behavior as intentional (e.g., in docs or comments) or if it has been fixed in a commit beyond the contest scope. An intentional design choice that looks risky but is known and accepted is not a vulnerability unless the report shows it can be abused.", "\n",
    "   ", "- If a patch is known for this issue but not in the contest scope, mention that it's a known issue if relevant. If it's patched, the report might be considered informational unless the contest explicitly includes it.", "\n",
    "   ", "- Consider if this is essentially the same as another reported issue. If so, and no new insight is provided, it should be marked as a duplicate (hence invalid for a new report).", "\n",
    "\n",
    "8) **Be Strict & Objective**:", "\n",
    "   ", "- If the only consequence of the supposed bug is a benign revert or an inconvenience without security impact, it's not a valid finding. Do not award credit for hypothetical or negligible issues. In such cases, respond with '", "#NoVulnerability found for this question.", "'", "\n",
    "\n",
    "================================================================================================================================================", "\n",
    "Now perform the validation and respond with either the **Audit Report** (if the claim is valid) or **", "#NoVulnerability found for this question.", "** (if invalid), strictly following the above instructions.", "\n">>

\* Mutant of validation_format: the report is appended to the template
\* instead of standing at the placeholder.
golang_geth_validation_format_appended(report) ==
  golang_geth_validation_head \o golang_geth_validation_tail \o report

\* src/prompt/golang_geth_question.py:90-193, validation_format: the f-string with {report} replaced by the argument.
golang_geth_validation_format(report) ==
  golang_geth_validation_head \o report \o golang_geth_validation_tail

\* src/prompt/solidity_question.py:4-7, the f-string of question_format up to the placeholder {question}
solidity_question_head ==
  <<"\n",
    "You are a Web3 Security Researcher. Your task is to analyze the given codebase with a laser focus on this single question:", "\n",
    "\n",
    "**Security Question (scope for this run):** ">>

\* src/prompt/solidity_question.py:7-119, the f-string of question_format after the placeholder {question}
solidity_question_tail ==
  <<"\n",
    "\n",
    "Your mission:", "\n",
    "- Use the security question as your starting point. Investigate all code paths, business logic, and protocol assumptions tied to that question and look for one concrete, exploitable vulnerability. Do not debate the premise of the question; accept it and investigate.", "\n",
    "- Explore a wide range of realistic input values and edge cases. Test large and small amounts, atypical decimals, sequence of actions, and boundary conditions to see how state variables change. When mathematics or accounting are involved, check for rounding errors, underflow/overflow, interest miscalculations, or invariant violations. Always use values that could actually be supplied by a user or contract on-chain.", "\n",
    "- Work through complete flows end-to-end: simulate how an unprivileged user would call the functions, how storage changes, and how balances or state variables evolve. Consider interactions across helpers, libraries, factories, deployers, pool contracts, configuration modules, and accounting components.", "\n",
    "- If you find a vulnerability, produce a report in the exact format below. If **no** valid vulnerability emerges, clearly state: **\"", "No vulnerability found for this question.", "\"**", "\n",
    "- Do not invent or repeat findings you've reported for this question. Stay strictly within the scope defined by the question; don't add unrelated issues.", "\n",
    "- The security question is your starting point. Your job is to investigate the code related to it and find a concrete, exploitable vulnerability. Do not debate or question the premise of the question be deeply logical. ", "\n",
    "- Try to find **only ONE** valid vulnerability related to this question and think the vulnerability tied to this question .", "\n",
    "- Go deep into the codebase, business logic, and protocol assumptions.", "\n",
    "- If you find a vulnerability, you MUST produce a report in the exact format below.", "\n",
    "- If you do **not** find any valid vulnerability, you MUST clearly say: **\"", "No vulnerability found for this question.", "\"**", "\n",
    "- Do **not** invent or repeat vulnerabilities you've already reported for this same question.", "\n",
    "- Only stay within the scope of the question. Don't add extra findings.", "\n",
    "\n",
    "Important rules:", "\n",
    "- The vulnerability must be actually triggerable on-chain or off-chain. Pure logic/invariant violations are only valid if you can explain precisely how the invariant is broken.", "\n",
    "- Be 100% certain the issue is exploitable. When in doubt, report **\"", "#Noulnerability found.", "\"**", "\n",
    "- Focus on user-level attack surfaces (non-privileged actors) first. If the function is privileged, scrutinise subtle logic errors rather than assuming malicious admins.", "\n",
    "- Provide a working test using the project's test framework to demonstrate the exploit where possible. If the test or exploit cannot run, the issue is not valid.", "\n",
    "- Findings that only improve gas usage, fix event values, add zero-address checks, or address user/admin mistakes without harming the protocol are **out of scope**:. Also excluded are:", "\n",
    "  ", "* Gas optimisations, stylistic improvements or UX enhancements", "\n",
    "  ", "* Missing event parameters or incorrect view return values that don't affect state ", "\n",
    "  ", "* Issues requiring users or admins to input wrong values or call functions in the wrong order", "\n",
    "  ", "* Centralisation risks or reckless admin actions (assume admins are trusted)", "\n",
    "  ", "* Theoretical attacks relying on leaked keys, privileged addresses, 51% attacks, Sybil attacks, stablecoin depegging, sequencer downtime, future code changes, or third-party oracles misbehaving", "\n",
    "  ", "* Losses of dust amounts, accidental token transfers by users, or missing rewards/airdrops", "\n",
    "  ", "* Unsupported or weird token behaviours (unless explicitly in scope)", "\n",
    "  ", "* Duplicate or previously acknowledged issues", "\n",
    "- Check all places in the codebase where this logic could exist (helpers, libraries, factories, deployers, pool contracts, config, accounting).", "\n",
    "- Focus on user-level attack surface first (non-privileged actors). If the function is privileged, look for subtle logic mistakes.", "\n",
    "- Do not go out of scope.", "\n",
    "- Make Sure u provide a valid test function if its actually a vulnerability using their test setup ", "\n",
    "- Make sure the vulnerability can be triggered if not then its not valid ", "\n",
    "- If its more of like informational with no good impact then its not a vulnerability ", "\n",
    "\n",
    "If the issue you identify falls into any of the out-of-scope categories above, do not include it in your report. Otherwise, thoroughly test with dynamic values, check all relevant code paths, and produce a precise, reproducible proof-of-concept.", "\n",
    "\n",
    "Out-of-scope vulnerability types (must NOT be reported):", "\n",
    "- Gas optimizations, micro-optimizations, or stylistic improvements:contentReference.", "\n",
    "- Incorrect event values or view function outputs that do not affect protocol state:contentReference", "\n",
    "- Missing zero-address checks or user-input validation that only prevents user mistakes; assume users preview their transactions.", "\n",
    "- Admin misconfiguration or reckless admin calls; the admin is trusted so  dont give me vulnerabilty tied to that this is very important ", "\n",
    "- Blacklisting/whitelisting or freezing of contract/admin addresses unless it enables a non-privileged attacker", "\n",
    "- Front-running initializers or race conditions that cause no irreparable damage and can be fixed by redeployment:contentReference", "\n",
    "- Pure user-experience issues (temporary inconveniences, UI bugs, minor rounding dust) except its has valid impact ", "\n",
    "- Loss of rewards/airdrops or accidental direct token transfers that only hurt the sender", "\n",
    "- Storage-gap omissions in simple inheritance structures", "\n",
    "- Stale-price/round completeness checks unless explicitly required by the protocol", "\n",
    "- Any issue that cannot be realistically triggered, relies on hypothetical future code, third-party oracle misbehaviour, network reorgs or sequencer downtime", "\n",
    "- Attacks requiring privileged keys/addresses, leaked credentials, physical device access, 51% or Sybil attacks, or stablecoin depegging", "\n",
    "- Testing or attacks on out-of-scope contracts, test files, configuration files or third-party systems", "\n",
    "- Best-practice recommendations, feature requests, UX/UI improvements, missing headers, clickjacking on non-sensitive pages, rate-limit suggestions, or any other low/no-impact web/mobile bug", "\n",
    "- Vulnerabilities that depend solely on weird/non-standard tokens unless explicitly declared in scope", "\n",
    "- Approve race conditions and similar deprecated ERC-20 patterns", "\n",
    "- Known issues marked \"won't fix\" or acknowledged in previous contests", "\n",
    "\n",
    "Minimal validation checklist (MUST PASS for a valid finding):", "\n",
    "1. **Confirm call flow** - Set up the necessary preconditions (e.g., deploy pool, add liquidity, create orders) and then walk through the full exploit sequence from the external entry point. Verify that each call and modifier is actually satisfied; do not assume bypasses that are blocked by 'require' statements or modifiers in normal flow.", "\n",
    "2. **Track state changes** - Capture the values of all relevant variables (balances, totalFunds, votes, counters) before and after each step. Show exactly where an invariant is broken, funds are misallocated, or a state variable drifts from its intended value.", "\n",
    "3. **Use realistic values** - Choose input values that are within the range a normal user could supply on-chain: non-zero amounts, proper decimals, and values that satisfy bounds checks. Make sure any arithmetic (multiplications, divisions, modulo) with these values does not overflow or underflow, and that rounding errors cause a real financial impact rather than negligible dust.", "\n",
    "4. **Demonstrate the effect** - Prove that the exploit yields a concrete advantage  rather than merely causing a revert or requiring a careless user. Findings that depend on user/admin mistakes are considered.", "\n",
    "5. **Provide a runnable test** - Write a minimal, reproducible test case using the project's test framework and codebase that executes the exploit sequence and asserts the incorrect outcome. Code4rena explicitly requires coded, runnable PoCs for Medium/High findings If the test does not run or the exploit cannot be reproduced, the issue is invalid.", "\n",
    "6. **Exclude out-of-scope scenarios** - Do not rely on hypothetical future code changes, misbehaving oracles, leaked keys, privileged actors, Sybil/51% attacks, or other conditions listed in the out-of-scope section. If an exploit depends on any of these, it should not be reported.", "\n",
    "7. **make sure you check the code with flow, dont report a vulnerabilty when u haven't checked how its been called from the entrypoint to the end ", "\n",
    "\n",
    "\n",
    "Only when all of the above checks pass should a vulnerability be reported as valid. Otherwise, return \"", "#NoVulnerability found for this question.", "\"", "\n",
    "\n",
    "Note make the report short and understandable and not too long ", "\n",
    "\n",
    "Audit Report", "\n",
    "\n",
    "## Title", "\n",
    "[Clear and specific name of the vulnerability related to the question]", "\n",
    "\n",
    "## Summary", "\n",
    "Short, direct summary of the issue and where it occurs.", "\n",
    "\n",
    "## Impact", "\n",
    "Low or Medium or HIgh ", "\n",
    "\n",
    "## Finding Description", "\n",
    "Explain the vulnerability step-by-step:", "\n",
    "- where in the code / which component,", "\n",
    "- what the intended logic is,", "\n",
    "- what the actual logic is,", "\n",
    "- how an attacker / user can reach it,", "\n",
    "- which security guarantee is broken (authz, accounting, invariant, DoS, etc.).", "\n",
    "Keep it tight but undeniable.", "\n",
    "\n",
    "## Impact Explanation", "\n",
    "Explain the concrete impact (fund loss, permanent lock, wrong accounting, privilege escalation, market skew, protocol invariant break).", "\n",
    "\n",
    "## Likelihood Explanation", "\n",
    "How likely is this to be hit in real usage? (e.g. callable by anyone, common flow, requires specific state, etc.)", "\n",
    "\n",
    "## Recommendation", "\n",
    "Give a concise fix direction and, if possible, a short code-level suggestion (no big refactors).", "\n",
    "\n",
    "## Proof of Concept", "\n",
    "Show a minimal scenario/test/call sequence that demonstrates the issue.", "\n",
    "- setup", "\n",
    "- action", "\n",
    "- observed broken state / wrong value / bypass", "\n",
    "- Make sure to provide the actual test function using the  codebase with their test setup that must actually  work to prove this vulnerability ", "\n",
    "\n",
    "If **no** vulnerability is found that matches this exact question, output ONLY:", "\n",
    "#NoVulnerability found for this question.", " Note Put the hashtag ", "\n",
    "\n",
    "Do not output anything else if there is no vulnerability.", "\n">>

\* Mutant of question_format: an empty question is refused and nothing is
\* returned.
solidity_question_format_nonempty(question) ==
  IF question = <<>> THEN <<>>
  ELSE solidity_question_head \o question \o solidity_question_tail

\* src/prompt/solidity_question.py:3-120, question_format: the f-string with {question} replaced by the argument.
solidity_question_format(question) ==
  solidity_question_head \o question \o solidity_question_tail

\* src/prompt/solidity_question.py:124-128, the f-string of validation_format up to the placeholder {report}
solidity_validation_head ==
  <<"\n",
    "You are a Senior Web3 Security Researcher  Judge. Your task is *validation* of a single security question/claim (not the writing style of the report). The string below is the security *report/claim* to investigate and validate:", "\n",
    "\n",
    "SECURITY QUESTION / CLAIM (scope for this run):", "\n">>

\* src/prompt/solidity_question.py:128-229, the f-string of validation_format after the placeholder {report}
solidity_validation_tail ==
  <<"\n",
    "\n",
    "================================================================================================================================================", "\n",
    "Your mission (precise):", "\n",
    "\n",
    "1) **Treat the claim as the starting point** -- do not argue about report grammar or who wrote it. Instead, *investigate whether the underlying technical claim is a valid, exploitable vulnerability in the codebase.* Use code, tests, DeepWiki pages, and real flows to confirm or refute the claim.", "\n",
    "\n",
    "2) **Search & cross-check**:", "\n",
    "   ", "- Inspect all code paths relevant to the claim: entrypoints, helpers, storage, config, libraries, protocol/version switches.", "\n",
    "   ", "- Search DeepWiki (or other provided knowledge sources) for prior reports, mitigations, or acknowledged issues related to the same logic. Summarize relevant pages and links briefly to support your verdict.", "\n",
    "   ", "- Check for previous public disclosures, acknowledged issues, or official \"won't-fix\" notes that would invalidate the finding.", "\n",
    "\n",
    "3) **Platform acceptance rules** (must be enforced). When deciding if the claim is a real, reportable vulnerability, use these judge filters (if ANY apply, the finding is invalid ):", "\n",
    "\n",
    "   ", "Automatic *invalid / rejected* conditions (if any apply -> **reject** and return '", "#NoVulnerability found for this question.", "'):", "\n",
    "   ", "- The issue is a pure admin misconfiguration or requires privileged keys (admins are trusted) except it would have an impact that is irreversible ", "\n",
    "   ", "- The issue is only a gas optimization, style, or UX issue.", "\n",
    "   ", "- The issue cannot be triggered on-chain (no sequence of on-chain calls can reproduce it).", "\n",
    "   ", "- No realistic attacker/sequence: requires leaked private keys, 51%/consensus attacks, Sybil or censoring attackers, off-chain oracle manipulations beyond the contract assumptions, chain reorganizations, or other external improbable events.", "\n",
    "   ", "- The reported impact is contradictory to code behavior (e.g., you find the code already protects the path).", "\n",
    "   ", "- The issue depends solely on weird/unsupported token implementations unless the project explicitly includes them in scope.", "\n",
    "   ", "- The issue is a duplicate of already-acknowledged/wont-fix issues listed in DeepWiki or the repo's issue tracker (unless the report adds new exploitability).", "\n",
    "   ", "- The issue only affects off-chain tooling, docs, or test-only code.", "\n",
    "   ", "- The vulnerability cannot produce a concrete security impact (fund loss, irrevocable lock, invariant break, prolonged DoS) -- e.g., it only causes a revert for a single user but not a systemic problem.", "\n",
    "\n",
    "   ", "Platform-specific acceptance heuristics (apply all):", "\n",
    "   ", "- : Requires a precise call flow, state changes, and a runnable PoC (forge/test or similar) that demonstrates the exploit within the repo's tests. No admin-only assumptions. Concrete financial or availability impact required for Low/Medium/High.", "\n",
    "   ", "- : Prefers on-chain exploitability with measurable financial impact or critical availability/security impact. Runnable PoC desirable. Low-impact or purely informational reports are usually not eligible for bounties.", "\n",
    "   ", "- : Similar rules -- reproducible PoC, clear impact, no admin-only errors, no theoretical/remote dependencies.", "\n",
    "\n",
    "4) **Language & test harness expectations (be language-aware)**:", "\n",
    "   ", "- **Solidity / EVM**: Provide Foundry/Hardhat test or snippet that runs inside the repository tests (e.g., 'forge test' or 'hardhat test'). Use contract addresses in the repo and realistic on-chain values.", "\n",
    "   ", "- **Move**: Provide a Move unit test or CLI script using the repo's test harness / Move prover that reproduces the behavior.", "\n",
    "   ", "- **Rust (Sorboban / Substrate)**: Provide a Soroban test (#[test]) or substrate unit test matching the codebase's test harness and compiling with the repo.", "\n",
    "   ", "- **Go (Cosmos SDK)**: Provide a Go unit/integration test scenario from the repo's testing framework that reproduces the issue (e.g., with simapp or chain-integration tests).", "\n",
    "   ", "- If a runnable PoC is not technically possible in the repo context (e.g., needs a live chain or complex infra), the issue is invalid unless a *deterministic local test* can be provided that demonstrates the logic failure.", "\n",
    "   ", "- Note my test may be wrong because its automated so ur goal is to check the report and the protocol itself to see if its valid or not ", "\n",
    "\n",
    "5) **Minimal validation checklist (ALL must pass for a valid finding)**:", "\n",
    "   ", "1. **Confirm call flow** -- show the exact sequence of calls from an external entrypoint to the vulnerable internal function. Demonstrate ability to satisfy any 'require'/'auth' checks.", "\n",
    "   ", "2. **Track state changes** -- show before/after snapshots of all relevant storage variables and account balances proving the invariant break or DoS.", "\n",
    "   ", "3. **Realistic values** -- use values a real user could provide on-chain and show they fit existing bounds. Avoid hypothetical huge numbers unless those are within the type limits and reachable via normal admin/setters described in repo.", "\n",
    "   ", "4. **Demonstrate effect** -- show concrete impact (fund loss, frozen funds, persistent DoS, wrong accounting, privilege escalation). A revert-only bug with no systemic impact is typically invalid.", "\n",
    "   ", "5. **Provide runnable test** -- include a minimal test that runs in the repo's test framework and reproduces the issue. Tests must compile/run. (If you cannot produce a test because of external dependencies, the report is invalid.)", "\n",
    "   ", "6. **No privileged assumptions** -- attacker must be a non-privileged caller unless the claim is about a subtle admin logic bug (in which case still show how it breaks security beyond normal admin actions).", "\n",
    "   ", "7. **Exclude out-of-scope scenarios** -- ensure it does not rely on consensus/infra/third-party conditions listed earlier.", "\n",
    "\n",
    "6) **What to produce**:", "\n",
    "   ", "- If you **find a valid vulnerability** (ALL checks above pass), produce the report **in this exact format** (do not add other commentary):", "\n",
    "     ", "'''", "\n",
    "     ", "Audit Report", "\n",
    "\n",
    "     ", "## Title", "\n",
    "     ", "[Clear and specific name of the vulnerability related to the question]", "\n",
    "\n",
    "     ", "## Summary", "\n",
    "     ", "Short, direct summary of the issue and where it occurs.", "\n",
    "\n",
    "     ", "## Impact", "\n",
    "     ", "Low or Medium or High", "\n",
    "\n",
    "     ", "## Finding Description", "\n",
    "     ", "- location: <file:line or module>", "\n",
    "     ", "- intended logic:", "\n",
    "     ", "- actual logic:", "\n",
    "     ", "- exploitation path (step-by-step, caller, preconditions)", "\n",
    "     ", "- security guarantee broken", "\n",
    "\n",
    "     ", "## Impact Explanation", "\n",
    "     ", "Concrete effects (fund loss, DoS, locked state, wrong accounting, etc.)", "\n",
    "\n",
    "     ", "## Likelihood Explanation", "\n",
    "     ", "How likely -- caller privilege, state preconditions, frequency.", "\n",
    "\n",
    "     ", "## Recommendation", "\n",
    "     ", "Short code-level fix or mitigation.", "\n",
    "\n",
    "     ", "## Proof of Concept", "\n",
    "     ", "Provide a runnable test/PoC using the repository's test harness:", "\n",
    "     ", "- exact file & function to add", "\n",
    "     ", "- simple setup", "\n",
    "     ", "- actions to execute", "\n",
    "     ", "- assert expected failure/impact", "\n",
    "     ", "'''", "\n",
    "\n",
    "   ", "- If you **do not** find a valid vulnerability, you MUST output exactly this single line (no additional text):", "\n",
    "     ", "'''", "\n",
    "     ", "#NoVulnerability found for this question.", "\n",
    "     ", "Pls very important because this is what i would use to know automated if its invalid ", "\n",
    "     ", "'''", "\n",
    "\n",
    "7) **DeepWiki / Prior art check**:", "\n",
    "   ", "- Search DeepWiki entries (or provided knowledge base) for identical / related issues and whether the project already acknowledged or patched this behavior; if acknowledged and fixed, treat as non-reportable unless the PoC demonstrates residual exploitation after the claimed fix.", "\n",
    "   ", "- If DeepWiki shows the issue is intentionally accepted design (with rationale), treat as non-reportable unless you can show a real exploit that design does not mitigate.", "\n",
    "\n",
    "\n",
    "8) **Be strict & conservative**:", "\n",
    "   ", "- If the only effect is a reverted call for a single non-critical action with no larger impact, return '", "#NoVulnerability found for this question.", "'", "\n",
    "\n",
    "================================================================================================================================================", "\n",
    "Now perform the validation and respond exactly as required in section (6) above.", "\n">>

\* Mutant of validation_format: the report is put on one line (its line
\* breaks are dropped).
solidity_validation_format_joined(report) ==
  solidity_validation_head \o SelectSeq(report, LAMBDA t : t # "\n") \o solidity_validation_tail

\* src/prompt/solidity_question.py:123-230, validation_format: the f-string with {report} replaced by the argument.
solidity_validation_format(report) ==
  solidity_validation_head \o report \o solidity_validation_tail

(***************************************************************************)
(* Inputs.  The argument of a call is any string; the check draws it from  *)
(* the short texts over FreeTokens and from report-shaped texts.           *)
(***************************************************************************)
MaxLen == 2

FreeTokens ==
  {NL, " ", "x", "> ", "{question}", "{report}", "{", "}",
   Sentinel, "#novulnerability found for this question.", "## TITLE"}
  \cup {Headings[h] : h \in DOMAIN Headings}

RECURSIVE SeqsUpTo(_, _)
SeqsUpTo(S, n) ==
  IF n = 0 THEN {<<>>}
  ELSE LET shorter == SeqsUpTo(S, n - 1)
       IN  shorter \cup {Append(s, t) : s \in {u \in shorter : Len(u) = n - 1}, t \in S}

ShortTexts == SeqsUpTo(FreeTokens, MaxLen)

\* A text shaped like a report: an optional first line, then for each heading
\* of mask, in the order of Headings, the heading line and a body line.
RECURSIVE ReportFrom(_, _, _)
ReportFrom(h, mask, body) ==
  IF h > Len(Headings) THEN <<>>
  ELSE (IF h \in mask THEN <<Headings[h], NL>> \o body \o <<NL>> ELSE <<>>)
       \o ReportFrom(h + 1, mask, body)

ReportTexts ==
  {pre \o ReportFrom(1, mask, body) :
     pre \in {<<>>, <<"Audit Report", NL, NL>>},
     mask \in SUBSET DOMAIN Headings,
     body \in {<<>>, <<"x">>}}

FreeTexts == ShortTexts \cup ReportTexts

(***************************************************************************)
(* State: the argument a caller holds, and the last call made with it and  *)
(* its result.  The functions keep no state of their own.                  *)
(***************************************************************************)
VARIABLES freeText, ecosystem, phase, prompt

vars == <<freeText, ecosystem, phase, prompt>>

Ecosystems == {"CosmosGo", "GethGo", "Solidity"}
Phases == {"Question", "Validation"}

Init ==
  /\ freeText \in FreeTexts
  /\ ecosystem = "none"
  /\ phase = "none"
  /\ prompt = <<>>

\* golang_cosmos_question.question_format(freeText)
CosmosQuestion ==
  /\ ecosystem' = "CosmosGo"
  /\ phase' = "Question"
  /\ prompt' = golang_cosmos_question_format(freeText)
  /\ UNCHANGED freeText

\* golang_cosmos_question.validation_format(freeText)
CosmosValidation ==
  /\ ecosystem' = "CosmosGo"
  /\ phase' = "Validation"
  /\ prompt' = golang_cosmos_validation_format(freeText)
  /\ UNCHANGED freeText

\* Mutant of the call: a result is kept once made and returned for every
\* later call.
GethQuestion_memoized ==
  /\ ecosystem' = "GethGo"
  /\ phase' = "Question"
  /\ prompt' = IF prompt # <<>> THEN prompt ELSE golang_geth_question_format(freeText)
  /\ UNCHANGED freeText

\* golang_geth_question.question_format(freeText)
GethQuestion ==
  /\ ecosystem' = "GethGo"
  /\ phase' = "Question"
  /\ prompt' = golang_geth_question_format(freeText)
  /\ UNCHANGED freeText

\* golang_geth_question.validation_format(freeText)
GethValidation ==
  /\ ecosystem' = "GethGo"
  /\ phase' = "Validation"
  /\ prompt' = golang_geth_validation_format(freeText)
  /\ UNCHANGED freeText

\* solidity_question.question_format(freeText)
SolidityQuestion ==
  /\ ecosystem' = "Solidity"
  /\ phase' = "Question"
  /\ prompt' = solidity_question_format(freeText)
  /\ UNCHANGED freeText

\* solidity_question.validation_format(freeText)
SolidityValidation ==
  /\ ecosystem' = "Solidity"
  /\ phase' = "Validation"
  /\ prompt' = solidity_validation_format(freeText)
  /\ UNCHANGED freeText

Next ==
  \/ CosmosQuestion
  \/ CosmosValidation
  \/ GethQuestion
  \/ GethValidation
  \/ SolidityQuestion
  \/ SolidityValidation

Spec == Init /\ [][Next]_vars

\* Mutant of render: the argument is quoted on every call.
render_quoting(e, p, t) ==
  CASE e = "CosmosGo" /\ p = "Question"   -> golang_cosmos_question_format(<<"> ">> \o t)
    [] e = "CosmosGo" /\ p = "Validation" -> golang_cosmos_validation_format(<<"> ">> \o t)
    [] e = "GethGo"   /\ p = "Question"   -> golang_geth_question_format(<<"> ">> \o t)
    [] e = "GethGo"   /\ p = "Validation" -> golang_geth_validation_format(<<"> ">> \o t)
    [] e = "Solidity" /\ p = "Question"   -> solidity_question_format(<<"> ">> \o t)
    [] e = "Solidity" /\ p = "Validation" -> solidity_validation_format(<<"> ">> \o t)

\* The call made last, as a function of (ecosystem, phase).
render(e, p, t) ==
  CASE e = "CosmosGo" /\ p = "Question"   -> golang_cosmos_question_format(t)
    [] e = "CosmosGo" /\ p = "Validation" -> golang_cosmos_validation_format(t)
    [] e = "GethGo"   /\ p = "Question"   -> golang_geth_question_format(t)
    [] e = "GethGo"   /\ p = "Validation" -> golang_geth_validation_format(t)
    [] e = "Solidity" /\ p = "Question"   -> solidity_question_format(t)
    [] e = "Solidity" /\ p = "Validation" -> solidity_validation_format(t)

Called == phase \in Phases

TypeOK ==
  /\ freeText \in FreeTexts
  /\ ecosystem \in Ecosystems \cup {"none"}
  /\ phase \in Phases \cup {"none"}
  /\ Called => prompt = render(ecosystem, phase, freeText)

\* The parts of the f-string before and after the placeholder, per call.
PromptHead(e, p) ==
  CASE e = "CosmosGo" /\ p = "Question"   -> golang_cosmos_question_head
    [] e = "CosmosGo" /\ p = "Validation" -> golang_cosmos_validation_head
    [] e = "GethGo"   /\ p = "Question"   -> golang_geth_question_head
    [] e = "GethGo"   /\ p = "Validation" -> golang_geth_validation_head
    [] e = "Solidity" /\ p = "Question"   -> solidity_question_head
    [] e = "Solidity" /\ p = "Validation" -> solidity_validation_head

PromptTail(e, p) ==
  CASE e = "CosmosGo" /\ p = "Question"   -> golang_cosmos_question_tail
    [] e = "CosmosGo" /\ p = "Validation" -> golang_cosmos_validation_tail
    [] e = "GethGo"   /\ p = "Question"   -> golang_geth_question_tail
    [] e = "GethGo"   /\ p = "Validation" -> golang_geth_validation_tail
    [] e = "Solidity" /\ p = "Question"   -> solidity_question_tail
    [] e = "Solidity" /\ p = "Validation" -> solidity_validation_tail

\* The fixed text of a variant: what the call returns for the empty argument.
PolicyText(e, p) == render(e, p, <<>>)

(***************************************************************************)
(* Lines of a text.  Token i is a line of its own when only blanks stand   *)
(* between it and the line breaks (or text ends) on both sides.            *)
(***************************************************************************)
BlankBefore(text, i) ==
  \E j \in 0..(i - 1) :
    /\ j = 0 \/ text[j] = NL
    /\ \A k \in (j + 1)..(i - 1) : text[k] \in Spaces

BlankAfter(text, i) ==
  \E j \in (i + 1)..(Len(text) + 1) :
    /\ j = Len(text) + 1 \/ text[j] = NL
    /\ \A k \in (i + 1)..(j - 1) : text[k] \in Spaces

IsLine(text, i) == BlankBefore(text, i) /\ BlankAfter(text, i)

\* The positions of the lines of text whose content, blanks trimmed, is tok.
LinesEqual(text, tok) == {i \in DOMAIN text : text[i] = tok /\ IsLine(text, i)}

LineCount(text, tok) == Cardinality(LinesEqual(text, tok))

\* The spellings under which the templates name the no-finding reply.
NoFindingSpellings ==
  {Sentinel, "No vulnerability found for this question.", "#Noulnerability found."}

(***************************************************************************)
(* The escaping the specification asks of the renderer (section 4.1): a    *)
(* line that, blanks trimmed and case folded, is the sentinel or a heading *)
(* gets a quoting marker in front; nothing else changes.  The templates    *)
(* apply no such step; it is defined to state what is claimed of them.     *)
(***************************************************************************)
Marker == "> "

\* Case folding of the tokens that can stand alone on a line of a free text.
Lower(t) ==
  CASE t = Sentinel                    -> "#novulnerability found for this question."
    [] t = "## Title"                  -> "## title"
    [] t = "## TITLE"                  -> "## title"
    [] t = "## Summary"                -> "## summary"
    [] t = "## Impact"                 -> "## impact"
    [] t = "## Finding Description"    -> "## finding description"
    [] t = "## Impact Explanation"     -> "## impact explanation"
    [] t = "## Likelihood Explanation" -> "## likelihood explanation"
    [] t = "## Recommendation"         -> "## recommendation"
    [] t = "## Proof of Concept"       -> "## proof of concept"
    [] t = "Audit Report"              -> "audit report"
    [] OTHER                           -> t

Reserved == {Sentinel} \cup {Headings[h] : h \in DOMAIN Headings}

ReservedLower == {Lower(r) : r \in Reserved}

LineStart(text, i) == i = 1 \/ text[i - 1] = NL

\* The line that starts at token i is a reserved one.
Collides(text, i) ==
  \E j \in i..Len(text) :
    /\ Lower(text[j]) \in ReservedLower
    /\ \A k \in i..(j - 1) : text[k] \in Spaces
    /\ BlankAfter(text, j)

RECURSIVE SanitizeFrom(_, _)
SanitizeFrom(text, i) ==
  IF i > Len(text) THEN <<>>
  ELSE (IF LineStart(text, i) /\ Collides(text, i) THEN <<Marker>> ELSE <<>>)
       \o <<text[i]>> \o SanitizeFrom(text, i + 1)

sanitize(freeTextArg) == SanitizeFrom(freeTextArg, 1)

\* No token of the text is the sentinel or a heading, in any casing.
NoReservedToken(text) == \A i \in DOMAIN text : Lower(text[i]) \notin ReservedLower

\* Every call returns its template with the argument put in raw at the
\* placeholder.
RenderIsHeadTextTail ==
  Called => prompt = PromptHead(ecosystem, phase) \o freeText \o PromptTail(ecosystem, phase)

(***************************************************************************)
(* Claims                                                                  *)
(***************************************************************************)

\* C1: in each of the six variants every instruction that names the reply
\* for "no finding" names the sentinel byte for byte, and no other spelling.
\* Fails for solidity_question.question_format (lines 13, 19, 25).
C1_SentinelByteIdentical ==
  Called =>
    \A i \in DOMAIN PolicyText(ecosystem, phase) :
      PolicyText(ecosystem, phase)[i] \in NoFindingSpellings
        => PolicyText(ecosystem, phase)[i] = Sentinel

\* C2: rendered with a free text that has no reserved token, every variant
\* shows each of the eight headings as a line exactly once, in the order of
\* Headings.  Fails for golang_cosmos_question.validation_format, whose
\* template announces the format "below" and prints no heading.
C2_SameGrammarEverywhere ==
  (Called /\ NoReservedToken(freeText)) =>
    /\ \A h \in DOMAIN Headings : LineCount(prompt, Headings[h]) = 1
    /\ \A h \in 1..(Len(Headings) - 1) :
         \A i \in LinesEqual(prompt, Headings[h]) :
           \A j \in LinesEqual(prompt, Headings[h + 1]) : i < j

\* C3: the number of unmarked sentinel lines of a rendered prompt does not
\* depend on the free text: a sentinel line of the free text is marked.
\* Fails: the argument is interpolated raw.
C3_EmbeddedSentinelMarked ==
  Called => LineCount(prompt, Sentinel) = LineCount(PolicyText(ecosystem, phase), Sentinel)

\* C4: in a Validation render no heading occurs as an unmarked line more
\* often than in the render of the empty free text.  Fails: the heading
\* lines of a prior report are interpolated raw.
C4_EmbeddedHeadingsMarked ==
  (Called /\ phase = "Validation") =>
    \A h \in DOMAIN Headings :
      LineCount(prompt, Headings[h]) <= LineCount(PolicyText(ecosystem, phase), Headings[h])

\* C10: every render is the fixed prefix, then sanitize(freeText), then the
\* fixed suffix.  (A prefix and suffix that serve every free text serve the
\* empty one, so their concatenation is PolicyText and their lengths add up
\* to its length; the templates' own split is the only candidate.)  Fails
\* where sanitize(freeText) differs from freeText: the raw text is embedded.
C10_PrefixSanitizedSuffix ==
  Called =>
    prompt = PromptHead(ecosystem, phase) \o sanitize(freeText) \o PromptTail(ecosystem, phase)

(***************************************************************************)
(* Layout of the templates.  Line n of the source file is line             *)
(* n - first + 1 of the f-string that opens on source line first (the      *)
(* string starts with the line break that follows the opening quotes).     *)
(* For each template: the source lines of the mission preamble, of the     *)
(* behavioural rules (mission items, important rules, checklists, judge    *)
(* steps), of the out-of-scope list (with the rejection conditions of the  *)
(* judges) and of the last line of the template.                           *)
(***************************************************************************)
\* src/prompt/golang_cosmos_question.py, question_format
golang_cosmos_question_layout ==
  [first |-> 2, preamble |-> {3}, rules |-> (7..21) \cup (33..37),
   outOfScope |-> 22..32, closing |-> {78}]

\* src/prompt/golang_cosmos_question.py, validation_format
golang_cosmos_validation_layout ==
  [first |-> 84, preamble |-> {85}, rules |-> (91..98) \cup (111..139),
   outOfScope |-> 100..109, closing |-> {151}]

\* src/prompt/golang_geth_question.py, question_format
golang_geth_question_layout ==
  [first |-> 3, preamble |-> {4}, rules |-> (8..21) \cup (35..40),
   outOfScope |-> 22..34, closing |-> {86}]

\* src/prompt/golang_geth_question.py, validation_format
golang_geth_validation_layout ==
  [first |-> 91, preamble |-> {92}, rules |-> (98..105) \cup (118..139) \cup (182..188),
   outOfScope |-> 107..116, closing |-> {191}]

\* src/prompt/solidity_question.py, question_format
solidity_question_layout ==
  [first |-> 4, preamble |-> {5}, rules |-> (9..27) \cup (37..44) \cup (65..77),
   outOfScope |-> (28..36) \cup (46..63), closing |-> {118}]

\* src/prompt/solidity_question.py, validation_format
solidity_validation_layout ==
  [first |-> 124, preamble |-> {125}, rules |-> (131..138) \cup (153..173) \cup (219..225),
   outOfScope |-> 140..151, closing |-> {228}]

Layout(e, p) ==
  CASE e = "CosmosGo" /\ p = "Question"   -> golang_cosmos_question_layout
    [] e = "CosmosGo" /\ p = "Validation" -> golang_cosmos_validation_layout
    [] e = "GethGo"   /\ p = "Question"   -> golang_geth_question_layout
    [] e = "GethGo"   /\ p = "Validation" -> golang_geth_validation_layout
    [] e = "Solidity" /\ p = "Question"   -> solidity_question_layout
    [] e = "Solidity" /\ p = "Validation" -> solidity_validation_layout

\* The line of text that token i is on, counted from 1.
LineNo(text, i) == 1 + Cardinality({j \in 1..(i - 1) : text[j] = NL})

\* The prose tokens on the given source lines of a template: line breaks,
\* blanks, headings and the spellings of the no-finding reply are left out.
TokensOnLines(e, p, srcLines) ==
  LET text == PromptHead(e, p) \o PromptTail(e, p)
      first == Layout(e, p).first
  IN  {t \in {text[i] : i \in {j \in DOMAIN text : LineNo(text, j) + first - 1 \in srcLines}} :
         t \notin ({NL} \cup Spaces \cup NoFindingSpellings
                     \cup {Headings[h] : h \in DOMAIN Headings})}

PartsOf(e, p) ==
  [preamble   |-> TokensOnLines(e, p, Layout(e, p).preamble),
   rules      |-> TokensOnLines(e, p, Layout(e, p).rules),
   outOfScope |-> TokensOnLines(e, p, Layout(e, p).outOfScope),
   closing    |-> TokensOnLines(e, p, Layout(e, p).closing)]

\* The prose tokens of the parts of each template.
golang_cosmos_question_parts == PartsOf("CosmosGo", "Question")
golang_cosmos_validation_parts == PartsOf("CosmosGo", "Validation")
golang_geth_question_parts == PartsOf("GethGo", "Question")
golang_geth_validation_parts == PartsOf("GethGo", "Validation")
solidity_question_parts == PartsOf("Solidity", "Question")
solidity_validation_parts == PartsOf("Solidity", "Validation")

TemplateParts(e, p) ==
  CASE e = "CosmosGo" /\ p = "Question"   -> golang_cosmos_question_parts
    [] e = "CosmosGo" /\ p = "Validation" -> golang_cosmos_validation_parts
    [] e = "GethGo"   /\ p = "Question"   -> golang_geth_question_parts
    [] e = "GethGo"   /\ p = "Validation" -> golang_geth_validation_parts
    [] e = "Solidity" /\ p = "Question"   -> solidity_question_parts
    [] e = "Solidity" /\ p = "Validation" -> solidity_validation_parts

PreambleTokens(e, p) == TemplateParts(e, p).preamble
RuleTokens(e, p) == TemplateParts(e, p).rules
OutOfScopeTokens(e, p) == TemplateParts(e, p).outOfScope
ClosingTokens(e, p) == TemplateParts(e, p).closing

\* Where the tokens of a set stand in a text.
Positions(text, toks) == {i \in DOMAIN text : text[i] \in toks}

\* The offsets k at which the free text stands in the prompt, as tokens
\* k+1 .. k+Len(freeText).
FreeTextOffsets ==
  {k \in 0..(Len(prompt) - Len(freeText)) :
     SubSeq(prompt, k + 1, k + Len(freeText)) = freeText}

\* The lines of the prompt, outside the free text at offset k, that are a
\* heading or the sentinel; among them those that are heading h, resp. the
\* sentinel.
GrammarLinesOutside(k) ==
  {i \in DOMAIN prompt :
     /\ prompt[i] \in Reserved
     /\ i \notin (k + 1)..(k + Len(freeText))
     /\ IsLine(prompt, i)}

HeadingLinesOutside(k, h) == {i \in GrammarLinesOutside(k) : prompt[i] = Headings[h]}

SentinelLinesOutside(k) == {i \in GrammarLinesOutside(k) : prompt[i] = Sentinel}

HeadingIn(G, h) == {i \in G : prompt[i] = Headings[h]}

SentinelIn(G) == {i \in G : prompt[i] = Sentinel}

AllBefore(A, B) == \A a \in A : \A b \in B : a < b

\* C11: the parts of every rendered prompt come in the order preamble, free
\* text, rule list, out-of-scope list, output-format grammar (the eight
\* headings and the sentinel line), closing instruction; every part is there
\* and no later part occurs before an earlier one.
C11_PartsInFixedOrder ==
  Called =>
    \E k \in FreeTextOffsets :
      LET pre     == Positions(prompt, PreambleTokens(ecosystem, phase))
          rules   == Positions(prompt, RuleTokens(ecosystem, phase))
          oos     == Positions(prompt, OutOfScopeTokens(ecosystem, phase))
          grammar == GrammarLinesOutside(k)
          closing == Positions(prompt, ClosingTokens(ecosystem, phase))
      IN  /\ pre # {} /\ rules # {} /\ oos # {} /\ closing # {}
          /\ \A h \in DOMAIN Headings : HeadingIn(grammar, h) # {}
          /\ SentinelIn(grammar) # {}
          /\ \A i \in pre : i <= k
          /\ \A i \in rules : i > k + Len(freeText)
          /\ AllBefore(rules, oos)
          /\ AllBefore(oos, grammar)
          /\ \A h \in 1..(Len(Headings) - 1) :
               AllBefore(HeadingIn(grammar, h), HeadingIn(grammar, h + 1))
          /\ AllBefore(grammar, closing)

\* C11 as amended: the preamble comes first and the free text next; rules,
\* out-of-scope list, the template's heading and sentinel lines and its
\* closing line all come after the free text; the rule list begins before
\* the out-of-scope list, the out-of-scope list ends before the grammar, the
\* headings the template prints are in the order of Headings with the
\* template's sentinel line after them, and a closing line comes after the
\* grammar.
C11_PartsOrderAmended ==
  Called =>
    \E k \in FreeTextOffsets :
      LET pre     == Positions(prompt, PreambleTokens(ecosystem, phase))
          rules   == Positions(prompt, RuleTokens(ecosystem, phase))
          oos     == Positions(prompt, OutOfScopeTokens(ecosystem, phase))
          grammar == GrammarLinesOutside(k)
          closing == Positions(prompt, ClosingTokens(ecosystem, phase))
          after   == rules \cup oos \cup grammar \cup closing
      IN  /\ pre # {} /\ rules # {} /\ oos # {}
          /\ \A i \in pre : i <= k
          /\ \A i \in after : i > k + Len(freeText)
          /\ \E r \in rules : \A o \in oos : r < o
          /\ AllBefore(oos, grammar)
          /\ \A h \in 1..(Len(Headings) - 1) :
               AllBefore(HeadingIn(grammar, h), HeadingIn(grammar, h + 1))
          /\ AllBefore(HeadingIn(grammar, Len(Headings)), SentinelIn(grammar))
          /\ AllBefore(grammar, closing)

\* C11 witness: a Validation prompt rendered from a report with heading
\* lines, whose template prints the eight headings and rules after them.
C11_Witness ==
  /\ ecosystem = "GethGo" /\ phase = "Validation"
  /\ freeText = <<"## Title", NL, "x", NL, "## Summary", NL, "x", NL>>
  /\ \A h \in DOMAIN Headings : LineCount(PolicyText(ecosystem, phase), Headings[h]) = 1
  /\ \E i \in Positions(prompt, RuleTokens(ecosystem, phase)) :
       \A j \in LinesEqual(prompt, Sentinel) : j < i

\* The text that stands in the prompt between the fixed parts of the
\* template: what the call made of its argument.
Embedded ==
  SubSeq(prompt, Len(PromptHead(ecosystem, phase)) + 1,
         Len(prompt) - Len(PromptTail(ecosystem, phase)))

\* No line of the text is, blanks trimmed and case folded, the sentinel or a
\* heading.
NoCollidingLine(text) ==
  \A i \in DOMAIN text : LineStart(text, i) => ~Collides(text, i)

\* C12: every rendered prompt has, after the free text, a line of the
\* template that is the sentinel and nothing else.  Fails for
\* solidity_question.question_format, whose line 116 carries a note behind
\* the sentinel.
C12_TemplateHasSentinelLine ==
  Called =>
    \E k \in FreeTextOffsets :
      \E i \in SentinelLinesOutside(k) : i > k + Len(freeText)

\* C13: a free text with no colliding line is left as it is by the escaping
\* (sanitize(x) = x, and sanitizing again changes nothing), and the prompt
\* is the template with that text, verbatim, at the placeholder.
C13_NonCollidingTextVerbatim ==
  (Called /\ NoCollidingLine(freeText)) =>
    /\ sanitize(freeText) = freeText
    /\ sanitize(sanitize(freeText)) = sanitize(freeText)
    /\ Embedded = freeText
    /\ prompt = PromptHead(ecosystem, phase) \o sanitize(freeText) \o PromptTail(ecosystem, phase)

\* C13 witness: a text that holds the sentinel, but not as a line, rendered.
C13_Witness ==
  /\ Called
  /\ freeText = <<"x", Sentinel>>
  /\ NoCollidingLine(freeText)
  /\ \E k \in FreeTextOffsets : k = Len(PromptHead(ecosystem, phase))

\* C14: what the renderer embeds has no unmarked line that is, blanks
\* trimmed and case folded, the sentinel or a heading.  Fails: no escaping is
\* applied, the text is embedded as given.
C14_NoUnmarkedCollidingLine ==
  Called => NoCollidingLine(Embedded)

\* The number of line breaks of a text, and its n-th line (the tokens
\* between the line breaks n-1 and n).
Breaks(text) == {i \in DOMAIN text : text[i] = NL}

BreakNo(text, n) ==
  IF n = 0 THEN 0
  ELSE IF n > Cardinality(Breaks(text)) THEN Len(text) + 1
  ELSE CHOOSE i \in Breaks(text) : Cardinality({j \in Breaks(text) : j <= i}) = n

LineOf(text, n) == SubSeq(text, BreakNo(text, n - 1) + 1, BreakNo(text, n) - 1)

\* C15: the embedded text has as many lines as the free text, in the same
\* order, and every line of the free text that is not a colliding one is
\* the same, token for token, in the embedded text.
C15_OnlyCollidingLinesChange ==
  Called =>
    /\ Cardinality(Breaks(Embedded)) = Cardinality(Breaks(freeText))
    /\ \A n \in 1..(Cardinality(Breaks(freeText)) + 1) :
         ~Collides(freeText, BreakNo(freeText, n - 1) + 1)
           => LineOf(Embedded, n) = LineOf(freeText, n)

\* C15 witness: a report of several lines, some of them colliding (heading
\* lines) and some not (body lines), rendered by a judge template.
C15_Witness ==
  /\ Called /\ phase = "Validation"
  /\ Cardinality(Breaks(freeText)) >= 4
  /\ \E n \in 1..Cardinality(Breaks(freeText)) :
       /\ LineOf(freeText, n) = <<"x">>
       /\ LineOf(Embedded, n) = <<"x">>
  /\ ~NoCollidingLine(freeText)

\* The fixed texts of the six variants.
PolicyEntries == {PolicyText(e, p) : e \in Ecosystems, p \in Phases}

OtherPhase(p) == IF p = "Question" THEN "Validation" ELSE "Question"

\* C17: each of the 3 x 2 (ecosystem, phase) pairs has its entry, six
\* different ones in all, and the Question and the Validation entry of an
\* ecosystem are different skeletons: their preambles differ and so do the
\* prompts they give for the same text.
C17_SixEntries ==
  Called =>
    /\ <<ecosystem, phase>> \in Ecosystems \X Phases
    /\ Cardinality(PolicyEntries) = 6
    /\ \A e \in Ecosystems : \A p \in Phases :
         Len(render(e, p, freeText)) = Len(PolicyText(e, p)) + Len(freeText)
    /\ prompt # render(ecosystem, OtherPhase(phase), freeText)
    /\ Positions(prompt, PreambleTokens(ecosystem, phase)) # {}
    /\ Positions(prompt, PreambleTokens(ecosystem, OtherPhase(phase))) = {}

\* C17 witness: the judge prompt of an ecosystem, made for a text for which
\* the auditor prompt is another one.
C17_Witness ==
  /\ ecosystem = "CosmosGo" /\ phase = "Validation"
  /\ freeText = <<"x">>
  /\ prompt = golang_cosmos_validation_format(freeText)
  /\ prompt # golang_cosmos_question_format(freeText)

C21_RenderTotal ==
  /\ ENABLED CosmosQuestion /\ ENABLED CosmosValidation
  /\ ENABLED GethQuestion /\ ENABLED GethValidation
  /\ ENABLED SolidityQuestion /\ ENABLED SolidityValidation
  /\ Called =>
       /\ prompt = render(ecosystem, phase, freeText)
       /\ Len(prompt) >= Len(freeText)
       /\ \A i \in 1..Len(prompt) : prompt[i] \in STRING
       /\ freeText = <<>> =>
            /\ prompt # <<>>
            /\ prompt = PromptHead(ecosystem, phase) \o PromptTail(ecosystem, phase)
  /\ LET s == sanitize(freeText)
     IN  /\ Len(s) >= Len(freeText)
         /\ \A i \in 1..Len(s) : s[i] \in STRING
         /\ freeText = <<>> => s = <<>>

C21_Witness ==
  /\ freeText = <<>>
  /\ ecosystem = "Solidity" /\ phase = "Question"
  /\ prompt = solidity_question_head \o solidity_question_tail
  /\ Len(prompt) > 0

\* What a call for (e, p) makes of the text given to it: the part of the
\* returned prompt between the fixed texts.
EmbeddedOf(e, p, text) ==
  SubSeq(render(e, p, text), Len(PromptHead(e, p)) + 1,
         Len(render(e, p, text)) - Len(PromptTail(e, p)))

\* Line n of the second text is line n of the first, as it is or behind one
\* marker.
KeepsLine(text, out, n) ==
  \/ LineOf(out, n) = LineOf(text, n)
  \/ LineOf(out, n) = <<Marker>> \o LineOf(text, n)

BraceTokens == {"{question}", "{report}", "{", "}"}

BraceCount(text) == Cardinality({i \in DOMAIN text : text[i] \in BraceTokens})

\* C29: the free text is put in once and as it is: the prompt is as long as
\* the fixed text before the placeholder, the free text and the fixed text
\* after it together, every token of the free text stands at its place
\* behind the fixed text, and the prompt has as many placeholder-like and
\* brace tokens as the free text, none of them expanded.
C29_SinglePass ==
  Called =>
    /\ Len(prompt) = Len(PromptHead(ecosystem, phase)) + Len(freeText)
                       + Len(PromptTail(ecosystem, phase))
    /\ \A i \in DOMAIN freeText :
         prompt[Len(PromptHead(ecosystem, phase)) + i] = freeText[i]
    /\ BraceCount(prompt) = BraceCount(freeText)

C29_Witness ==
  /\ ecosystem = "GethGo" /\ phase = "Question"
  /\ freeText = <<"{question}", "{">>
  /\ Embedded = freeText
  /\ Len(prompt) = Len(golang_geth_question_head) + 2 + Len(golang_geth_question_tail)

====
